---- MODULE Spec2Model ----
(***************************************************************************)
(* A model of go-mpg123 (src/mpg123/mpg123.go): one Decoder handle over    *)
(* the native mpg123 engine, the pull interface (Read, ReadAudioFrames,    *)
(* DecodeSamples, Feed, Seek, Decode) and one DecoderReader (the streaming *)
(* bridge) bound to the handle and to a caller-supplied io.Reader.         *)
(*                                                                         *)
(* The engine is the external C library.  It is modelled by what its       *)
(* primitives return: a decode cursor `pos` over the input `track` (the    *)
(* opened file's content, or the bytes fed so far), one PCM byte per input *)
(* byte, and the status codes of mpg123_read / mpg123_decode.              *)
(***************************************************************************)
EXTENDS Integers, Sequences, FiniteSets, TLC

(* ---------------------------- bounds ---------------------------------- *)
\* longest content of an opened file / of the caller's input stream
MaxTrack == 2
\* buf := make([]byte, 64*1024) of DecoderReader.Read, scaled down
ScratchSize == 2
\* OUT_MAX_BUFFER_SIZE of Decode, scaled down
OutMax == 2
\* longest caller buffer handed to a read operation
MaxBuf == 2
\* most frames asked of ReadAudioFrames
MaxFrames == 2
\* most transient (non end-of-input) errors the input stream reports
MaxSrcErrs == 1
\* most spontaneous engine failures (MPG123_ERR on an open source)
MaxFaults == 1

(* --------------------------- value sets ------------------------------- *)
\* the content of a file or of a stream of n bytes: byte i is i, so that a
\* dropped, repeated or reordered byte shows
Data(n) == [i \in 1..n |-> i]
Contents == {Data(n) : n \in 0..MaxTrack}
Min(a, b) == IF a < b THEN a ELSE b

\* what the engine decodes one input byte into (not the identity)
PcmByte(b) == b + 10
Pcm(s) == [i \in 1..Len(s) |-> PcmByte(s[i])]

OpenStates == {"File", "Fd", "Feed"}
SourceStates == {"Unopened", "Closed"} \cup OpenStates
Statuses == {"OK", "DONE", "NEED_MORE", "NEW_FORMAT", "ERR"}

Encodings == {"ENC_UNSIGNED_8", "ENC_SIGNED_16"}
\* the output formats a caller asks for: 8-bit mono and 16-bit stereo
Formats == {[rate |-> 44100, channels |-> 1, encoding |-> "ENC_UNSIGNED_8"],
            [rate |-> 44100, channels |-> 2, encoding |-> "ENC_SIGNED_16"]}
\* mpg123_encsize: bytes per sample of an encoding
EncSize(enc) == IF enc = "ENC_SIGNED_16" THEN 2 ELSE 1
GetEncodingBitsPerSample(enc) == 8 * EncSize(enc)
DefaultFormat == [rate |-> 44100, channels |-> 2, encoding |-> "ENC_SIGNED_16"]

VARIABLES
    handle,     \* Decoder.handle: "nil" (no decoder yet), "live", "deleted"
    source,     \* the handle's input source state
    track,      \* engine: the input it decodes (file content / bytes fed)
    pos,        \* engine: number of input bytes already decoded and handed out
    newFormat,  \* engine: a format notification is pending
    faults,     \* engine: spontaneous failures reported so far
    format,     \* engine: the negotiated output format
    dr,         \* the DecoderReader: [made, paranoid]
    srcData,    \* input stream: bytes it has not delivered yet
    srcEOF,     \* input stream: it has reported end-of-input
    srcErrs,    \* input stream: transient errors reported so far
    pc,         \* "idle", or "drread" inside the loop of DecoderReader.Read
    outLen,     \* len(bytes) of the DecoderReader.Read call in progress
    res,        \* the last operation and what it returned
    nat,        \* the last native read/decode call: request, capacity, result
    it,         \* the last iteration of the loop of DecoderReader.Read
    hist        \* what the bridge session has delivered and returned so far

vars == <<handle, source, track, pos, newFormat, faults, format, dr, srcData,
          srcEOF, srcErrs, pc, outLen, res, nat, it, hist>>

engine == <<source, track, pos, newFormat, faults, format>>
stream == <<srcData, srcEOF, srcErrs>>

\* what a call of NewDecoder was given and did: the backend name, whether
\* flags were passed, whether mpg123_new gave a handle, and the handle
\* mpg123_param was called on ("none": not called, "live", or "nil")
Construction(decoder, flags, alloc, param) ==
    [decoder |-> decoder, flags |-> flags, alloc |-> alloc, param |-> param]
NoConstruction == Construction("", FALSE, FALSE, "none")

\* a result: the operation, the count and the error it returned (and the
\* bytes, for an operation that returns them; the construction, for
\* NewDecoder)
Ret(op, n, err) ==
    [op |-> op, n |-> n, err |-> err, data |-> <<>>, new |-> NoConstruction]
\* the result of an operation that returns a byte slice
RetData(op, data, err) ==
    [op |-> op, n |-> Len(data), err |-> err, data |-> data,
     new |-> NoConstruction]
NoRes == Ret("none", 0, "nil")
\* a native call: first and last status, bytes requested, capacity of the
\* caller's buffer, bytes the engine reported and wrote
Native(first, st, want, cap, bytes) ==
    [first |-> first, st |-> st, want |-> want, cap |-> cap,
     done |-> Len(bytes), bytes |-> bytes]
NoNat == Native("none", "none", 0, 0, <<>>)
\* an iteration of the loop of DecoderReader.Read: the count and error of
\* the input read, whether Feed was called, whether the engine's read was
\* called, whether the handle was closed, and, while the call goes on, the
\* parity of the number of iterations made
Iter(n, err, fed, read, closed, odd) ==
    [n |-> n, err |-> err, fed |-> fed, read |-> read, closed |-> closed,
     odd |-> odd]
NoIter == Iter(0, "none", FALSE, FALSE, FALSE, FALSE)
NoHist == [delivered |-> <<>>, out |-> <<>>, terminal |-> FALSE,
           termAtCall |-> FALSE, foreign |-> FALSE]

(* ------------------------- engine primitives -------------------------- *)
Avail == Len(track) - pos

\* the status the engine reports when the input runs out
EndStatus == IF source = "Feed" THEN "NEED_MORE" ELSE "DONE"

\* mpg123_read(mh, out, want, &done) with the engine holding input trk,
\* cursor p and notification flag nf: status and byte count
NativeReadAt(trk, p, nf, want, fault) ==
    LET avail == Len(trk) - p IN
    IF source \notin OpenStates \/ fault THEN [st |-> "ERR", done |-> 0]
    ELSE IF nf /\ avail > 0 THEN [st |-> "NEW_FORMAT", done |-> 0]
    ELSE [st |-> IF avail > 0 /\ avail >= want THEN "OK" ELSE EndStatus,
          done |-> Min(want, avail)]

NativeRead(want, fault) == NativeReadAt(track, pos, newFormat, want, fault)

\* the bytes a native read of `done` bytes writes
NativeBytesAt(trk, p, done) == Pcm(SubSeq(trk, p + 1, p + done))
NativeBytes(done) == NativeBytesAt(track, pos, done)

\* whether the engine may fail spontaneously on this call
FaultChoices == IF source \in OpenStates /\ faults < MaxFaults
                THEN BOOLEAN ELSE {FALSE}

\* the engine's state after a native read with result r
AfterNativeRead(r, fault) ==
    /\ pos' = pos + r.done
    /\ newFormat' = IF r.st = "NEW_FORMAT" THEN FALSE ELSE newFormat
    /\ faults' = IF fault /\ source \in OpenStates THEN faults + 1 ELSE faults

\* mpg123_feed: accepted only by a handle opened for feeding
NativeFeedOK == source = "Feed"

\* mpg123_seek: the resulting position, negative on failure
NativeSeek(offset, whence) ==
    IF source \notin {"File", "Fd"} THEN -1
    ELSE LET base == IF whence = "SET" THEN 0
                     ELSE IF whence = "CUR" THEN pos ELSE Len(track)
             p == base + offset
         IN  IF p < 0 THEN -1 ELSE Min(p, Len(track))

(* ------------------------------ Init ---------------------------------- *)
Init ==
    /\ handle = "nil"
    /\ source = "Unopened"
    /\ track = <<>>
    /\ pos = 0
    /\ newFormat = FALSE
    /\ faults = 0
    /\ format = DefaultFormat
    /\ dr = [made |-> FALSE, paranoid |-> FALSE]
    /\ srcData = <<>>
    /\ srcEOF = FALSE
    /\ srcErrs = 0
    /\ pc = "idle"
    /\ outLen = 0
    /\ res = NoRes
    /\ nat = NoNat
    /\ it = NoIter
    /\ hist = NoHist

\* an operation may start: the decoder exists and no call is in progress
Ready == handle = "live" /\ pc = "idle"

\* the pull interface is used on a handle that no DecoderReader drives
Unbound == Ready /\ ~dr.made

\* an operation invoked on the handle directly, not through the bridge: the
\* bridge session, if there is one, is no longer the handle's only user
Direct == hist' = [hist EXCEPT !.foreign = @ \/ dr.made]

(* ----------------------- construction, release ------------------------ *)
DecoderNames == {"", "generic", "bogus"}
\* mpg123_new yields no handle for a backend the engine does not know
NativeNewOK(decoder) == decoder # "bogus"

\* a rule that passes the flags on whatever the backend name
AppliesParams_AnyName(decoder, params) == params

\* the branch of NewDecoder that calls mpg123_param: a backend name is given
\* and params != nil
AppliesParams(decoder, params) == decoder # "" /\ params

\* if mh == nil: NewDecoder gives up
NewFails(mh) == mh = "nil"

\* mpg123_new may also fail for want of memory (oom); mpg123_param is called
\* on whatever mpg123_new returned, before the test for nil
NewDecoder ==
    /\ handle = "nil"
    /\ \E decoder \in DecoderNames, params \in BOOLEAN, oom \in BOOLEAN :
         LET mh == IF NativeNewOK(decoder) /\ ~oom THEN "live" ELSE "nil"
             param == IF AppliesParams(decoder, params) THEN mh ELSE "none"
             new == Construction(decoder, params, mh # "nil", param)
         IN  IF NewFails(mh)
             THEN /\ handle' = "nil"
                  /\ res' = [Ret("NewDecoder", 0, "InitErr") EXCEPT !.new = new]
             ELSE /\ handle' = mh
                  /\ res' = [Ret("NewDecoder", 0, "nil") EXCEPT !.new = new]
    /\ UNCHANGED <<engine, dr, stream, pc, outLen, nat, it, hist>>

\* Delete is called after the source is closed
Delete ==
    /\ Ready
    /\ source \notin OpenStates
    /\ handle' = "deleted"
    /\ res' = Ret("Delete", 0, "nil")
    /\ Direct
    /\ UNCHANGED <<engine, dr, stream, pc, outLen, nat, it>>

(* --------------------------- output format ---------------------------- *)
Format ==
    /\ Unbound
    /\ \E f \in Formats : format' = f
    /\ res' = Ret("Format", 0, "nil")
    /\ hist' = hist
    /\ UNCHANGED <<handle, source, track, pos, newFormat, faults, dr, stream,
                   pc, outLen, nat, it>>

(* ----------------------------- open, close ---------------------------- *)
\* the source state a failed open leaves behind
NoSource == IF source = "Unopened" THEN "Unopened" ELSE "Closed"

OpenAs(op, state, contents) ==
    /\ \/ /\ \E c \in contents : track' = c
          /\ source' = state
          /\ pos' = 0
          /\ newFormat' = TRUE
          /\ res' = Ret(op, 0, "nil")
       \/ /\ source' = NoSource
          /\ UNCHANGED <<track, pos, newFormat>>
          /\ res' = Ret(op, 0, "OpenErr")
    /\ Direct
    /\ UNCHANGED <<handle, faults, format, dr, stream, pc, outLen, nat, it>>

\* a file or a descriptor is opened on a handle used through the pull
\* interface; a handle is opened for feeding before or after a DecoderReader
\* is bound to it
Open ==
    /\ Unbound
    /\ OpenAs("Open", "File", Contents)

OpenFile ==
    /\ Unbound
    /\ OpenAs("OpenFile", "Fd", Contents)

OpenFeed ==
    /\ Ready
    /\ OpenAs("OpenFeed", "Feed", {<<>>})

\* mpg123_close: the source is closed whatever it was
NativeClose == source' = "Closed"

Close ==
    /\ Ready
    /\ NativeClose
    /\ res' = Ret("Close", 0, "nil")
    /\ hist' = [hist EXCEPT !.foreign = @ \/ dr.made, !.terminal = @ \/ dr.made]
    /\ UNCHANGED <<handle, track, pos, newFormat, faults, format, dr, stream,
                   pc, outLen, nat, it>>

(* ---------------------------- pull decoder ---------------------------- *)
\* the error Read and ReadAudioFrames make of the status of the native read
ReadErr(st) ==
    IF st = "DONE" THEN "EOF"
    ELSE IF st # "OK" THEN "EngineErr"
    ELSE "nil"

\* &buf[0] of an empty slice: the Go runtime panics (index out of range)
\* before the native call is made
Panics(op) ==
    /\ res' = Ret(op, 0, "panic")
    /\ nat' = NoNat
    /\ UNCHANGED <<source, track, pos, newFormat, faults, format>>

Read ==
    /\ Unbound
    /\ \E cap \in 0..MaxBuf, fault \in FaultChoices :
         IF cap = 0 THEN Panics("Read")
         ELSE LET r == NativeRead(cap, fault) IN
              /\ AfterNativeRead(r, fault)
              /\ nat' = Native(r.st, r.st, cap, cap, NativeBytes(r.done))
              /\ res' = Ret("Read", r.done, ReadErr(r.st))
              /\ UNCHANGED <<source, track, format>>
    /\ hist' = hist
    /\ UNCHANGED <<handle, dr, stream, pc, outLen, it>>

\* mpg123_getformat: reading the format of a track whose first frame is
\* known takes the pending notification
AfterGetFormat == IF source \in OpenStates /\ Avail > 0 THEN FALSE ELSE newFormat

\* framesToBytes of ReadAudioFrames
FramesToBytes(frames) ==
    (GetEncodingBitsPerSample(format.encoding) \div 8) * frames * format.channels

\* what DecodeSamples makes of the result of ReadAudioFrames
DecodeSamplesRet(n, err) ==
    IF err = "EOF" THEN Ret("DecodeSamples", 0, "nil")
    ELSE Ret("DecodeSamples", n \div 4, "nil")

\* the shared body of ReadAudioFrames and DecodeSamples.  A native read asked
\* for more bytes than the buffer holds writes past its end when the engine
\* has that much to give: the call either returns or the process dies.
AudioFrames(op) ==
    /\ \E frames \in 0..MaxFrames, cap \in 0..MaxBuf, fault \in FaultChoices :
         IF cap = 0 THEN Panics(op) /\ pc' = pc
         ELSE LET want == FramesToBytes(frames)
                  r == NativeReadAt(track, pos, AfterGetFormat, want, fault)
                  bytes == NativeBytes(r.done)
              IN  \E dies \in IF r.done > cap THEN BOOLEAN ELSE {FALSE} :
                  /\ pos' = pos + r.done
                  /\ newFormat' = IF r.st = "NEW_FORMAT" THEN FALSE ELSE AfterGetFormat
                  /\ faults' = IF fault THEN faults + 1 ELSE faults
                  /\ nat' = Native(r.st, r.st, want, cap, bytes)
                  /\ IF r.done > cap /\ dies
                     THEN /\ pc' = "crashed"
                          /\ res' = Ret(op, 0, "crash")
                     ELSE /\ pc' = pc
                          /\ res' = IF op = "DecodeSamples"
                                    THEN DecodeSamplesRet(r.done, ReadErr(r.st))
                                    ELSE Ret(op, r.done, ReadErr(r.st))
                  /\ UNCHANGED <<source, track, format>>
    /\ hist' = hist
    /\ UNCHANGED <<handle, dr, stream, outLen, it>>

ReadAudioFrames ==
    /\ Unbound
    /\ AudioFrames("ReadAudioFrames")

DecodeSamples ==
    /\ Unbound
    /\ AudioFrames("DecodeSamples")

\* the bytes a caller feeds in one direct call
Chunks == {Data(n) : n \in 0..1}

Feed ==
    /\ Unbound
    /\ \E buf \in Chunks :
         /\ Len(track) + Len(buf) <= MaxTrack
         /\ IF buf = <<>> THEN Panics("Feed")
            ELSE /\ nat' = NoNat
                 /\ IF NativeFeedOK
                    THEN /\ track' = track \o buf
                         /\ res' = Ret("Feed", 0, "nil")
                    ELSE /\ track' = track
                         /\ res' = Ret("Feed", 0, "EngineErr")
                 /\ UNCHANGED <<source, pos, newFormat, faults, format>>
    /\ hist' = hist
    /\ UNCHANGED <<handle, dr, stream, pc, outLen, it>>

Whences == {"SET", "CUR", "END"}

Seek ==
    /\ Unbound
    /\ \E offset \in -1..1, whence \in Whences :
         LET s_offset == NativeSeek(offset, whence) IN
         /\ pos' = IF s_offset >= 0 THEN s_offset ELSE pos
         /\ res' = Ret("Seek", s_offset, "nil")
    /\ nat' = NoNat
    /\ hist' = hist
    /\ UNCHANGED <<handle, source, track, newFormat, faults, format, dr, stream,
                   pc, outLen, it>>

(* ----------------------- combined feed and decode --------------------- *)
\* the statuses that end the drain of Decode
EndsDrain(st) == st = "ERR" \/ st = "NEED_MORE"

\* the statuses on which the first call of Decode gives up
FirstGivesUp(st) == st = "ERR" \/ st = "NEED_MORE"

\* the loop of Decode (mpg123_decode with no input) from cursor p and
\* notification flag nf, as call number k, with `acc` written to the buffer
\* so far and `made` produced by the engine so far; the call numbered failAt
\* fails.  Yields the last status, the cursor, the buffer, what the engine
\* produced and the number of calls.
RECURSIVE Drain(_, _, _, _, _, _, _)
Drain(trk, p, nf, k, failAt, acc, made) ==
    LET r == NativeReadAt(trk, p, nf, OutMax, k = failAt)
        bytes == NativeBytesAt(trk, p, r.done)
    IN  IF EndsDrain(r.st)
        THEN [st |-> r.st, pos |-> p + r.done, nf |-> nf, out |-> acc,
              made |-> made \o bytes, calls |-> k]
        ELSE Drain(trk, p + r.done, nf /\ r.st # "NEW_FORMAT", k + 1, failAt,
                   acc \o bytes, made \o bytes)

\* the native calls of one Decode that may fail (0: none does)
FailChoices == IF source \in OpenStates /\ faults < MaxFaults
               THEN 0..(MaxTrack + 3) ELSE {0}

Decode ==
    /\ Unbound
    /\ \E buf \in Chunks, failAt \in FailChoices :
         /\ Len(track) + Len(buf) <= MaxTrack
         /\ IF buf = <<>> THEN Panics("Decode")
            ELSE IF ~NativeFeedOK
            THEN \* the engine takes no input on this handle: mpg123_decode fails
                 /\ nat' = Native("ERR", "ERR", OutMax, OutMax, <<>>)
                 /\ res' = RetData("Decode", <<>>, "EngineErr")
                 /\ UNCHANGED <<source, track, pos, newFormat, faults, format>>
            ELSE LET trk == track \o buf
                     r == NativeReadAt(trk, pos, newFormat, OutMax, failAt = 1)
                     first == NativeBytesAt(trk, pos, r.done)
                 IN
                 /\ track' = trk
                 /\ IF FirstGivesUp(r.st)
                    THEN /\ pos' = pos + r.done
                         /\ newFormat' = newFormat
                         /\ faults' = IF failAt = 1 THEN faults + 1 ELSE faults
                         /\ nat' = Native(r.st, r.st, OutMax, OutMax, first)
                         /\ res' = RetData("Decode", <<>>, "EngineErr")
                    ELSE LET d == Drain(trk, pos + r.done,
                                        newFormat /\ r.st # "NEW_FORMAT", 2,
                                        failAt, first, first)
                         IN
                         /\ pos' = d.pos
                         /\ newFormat' = d.nf
                         /\ faults' = IF failAt \in 1..d.calls THEN faults + 1
                                      ELSE faults
                         /\ nat' = Native(r.st, d.st, OutMax, OutMax, d.made)
                         /\ res' = IF d.st = "ERR"
                                   THEN RetData("Decode", <<>>, "EngineErr")
                                   ELSE RetData("Decode", d.out, "nil")
                 /\ UNCHANGED <<source, format>>
    /\ hist' = hist
    /\ UNCHANGED <<handle, dr, stream, pc, outLen, it>>

(* -------------------------- streaming bridge --------------------------- *)
\* Decoder.DecoderReader: restricts the output format and binds the handle
\* to the caller's input stream
DecoderReader ==
    /\ Ready
    /\ ~dr.made
    /\ \E f \in Formats : format' = f
    /\ dr' = [made |-> TRUE, paranoid |-> FALSE]
    /\ \E data \in Contents : srcData' = data
    /\ srcEOF' = FALSE
    /\ srcErrs' = 0
    /\ hist' = [NoHist EXCEPT !.foreign = (source # "Feed" \/ track # <<>>)]
    /\ it' = NoIter
    /\ res' = Ret("DecoderReader", 0, "nil")
    /\ nat' = NoNat
    /\ UNCHANGED <<handle, source, track, pos, newFormat, faults, pc, outLen>>

\* Paranoid is called on the reader the factory has just returned, before
\* its first Read
Paranoid ==
    /\ Ready
    /\ dr.made
    /\ res.op = "DecoderReader"
    /\ dr' = [dr EXCEPT !.paranoid = TRUE]
    /\ res' = Ret("Paranoid", 0, "nil")
    /\ UNCHANGED <<handle, engine, stream, pc, outLen, nat, it, hist>>

\* a Nuke that leaves the source as it is
NukeBody_NoClose == source' = source

\* the body of Nuke: dr.decoder.Close(), the Delete being commented out
NukeBody == NativeClose

Nuke ==
    /\ Ready
    /\ dr.made
    /\ NukeBody
    /\ hist' = [hist EXCEPT !.terminal = TRUE]
    /\ res' = Ret("Nuke", 0, "nil")
    /\ UNCHANGED <<handle, track, pos, newFormat, faults, format, dr, stream,
                   pc, outLen, nat, it>>

\* what one src.Read(buf) may return: a count and an error.  The stream
\* delivers its bytes in chunks of its choosing, may report end-of-input
\* together with its last bytes, may report a transient error, and reports
\* end-of-input for ever once it has reported it.
SrcReads ==
    IF srcEOF THEN {<<0, "io.EOF">>}
    ELSE {<<n, e>> : n \in 0..Min(ScratchSize, Len(srcData)),
                     e \in {"nil", "io.EOF", "ErrIO"}}
         \ ({<<n, "io.EOF">> : n \in 0..(Len(srcData) - 1)}
            \cup (IF srcErrs < MaxSrcErrs THEN {}
                  ELSE {<<n, "ErrIO">> : n \in 0..ScratchSize}))

\* the stream after a read that returned (n, e)
AfterSrcRead(n, e) ==
    /\ srcData' = SubSeq(srcData, n + 1, Len(srcData))
    /\ srcEOF' = (srcEOF \/ e = "io.EOF")
    /\ srcErrs' = IF e = "ErrIO" THEN srcErrs + 1 ELSE srcErrs

\* the statuses the switch of DecoderReader.Read has a case for
Handled(st) == st \in {"NEW_FORMAT", "OK", "DONE", "NEED_MORE"}

\* a test that takes a zero count for progress
HasProgress_AnyCount(done) == done >= 0

\* if done > 0 { return int(done), nil }
HasProgress(done) == done > 0

\* the read of the input stream feeds the chunk: err == nil
FeedsChunk(n, e) == e = "nil"

\* a test that shuts off on end-of-input only
ShutsOff_OnlyEOF(e) == e = "io.EOF" /\ dr.paranoid

\* a test that forgets the paranoid flag
ShutsOff_AnyMode(e) == e # "nil"

\* the read of the input stream ends the call: a failed read in paranoid mode
ShutsOff(e) == e # "nil" /\ dr.paranoid

\* the source is exhausted: err == io.EOF
Exhausted(e) == e = "io.EOF"

DRRead_Call ==
    /\ Ready
    /\ dr.made
    /\ \E len \in 0..MaxBuf : outLen' = len
    /\ pc' = "drread"
    /\ it' = NoIter
    /\ nat' = NoNat
    /\ res' = Ret("DRRead", 0, "pending")
    /\ hist' = [hist EXCEPT !.termAtCall = hist.terminal]
    /\ UNCHANGED <<handle, engine, dr, stream>>

\* DecoderReader.Read returns (n, err)
Returns(n, err) ==
    /\ pc' = "idle"
    /\ res' = Ret("DRRead", n, err)

\* one iteration of the loop of DecoderReader.Read
DRRead_Iter ==
    /\ pc = "drread"
    /\ \E sr \in SrcReads, fault \in FaultChoices :
        LET n == sr[1]
            e == sr[2]
            chunk == SubSeq(srcData, 1, n)
            delivered == hist.delivered \o chunk
        IN
        /\ AfterSrcRead(n, e)
        /\ IF FeedsChunk(n, e) /\ n = 0
           THEN \* dr.decoder.Feed(buf[0:0]) takes &buf[0] of an empty slice
                /\ Returns(0, "panic")
                /\ it' = Iter(n, e, TRUE, FALSE, FALSE, FALSE)
                /\ hist' = [hist EXCEPT !.delivered = delivered]
                /\ UNCHANGED <<engine, nat>>
           ELSE IF ~FeedsChunk(n, e) /\ ShutsOff(e)
           THEN \* dr.Nuke(); return 0, err
                /\ NukeBody
                /\ Returns(0, e)
                /\ it' = Iter(n, e, FALSE, FALSE, TRUE, FALSE)
                /\ hist' = [hist EXCEPT !.delivered = delivered, !.terminal = TRUE]
                /\ UNCHANGED <<track, pos, newFormat, faults, format, nat>>
           ELSE LET fed == FeedsChunk(n, e)
                    trk == IF fed /\ NativeFeedOK THEN track \o chunk ELSE track
                IN
                /\ track' = trk
                /\ IF outLen = 0
                   THEN \* &bytes[0] of an empty slice
                        /\ Returns(0, "panic")
                        /\ it' = Iter(n, e, fed, FALSE, FALSE, FALSE)
                        /\ hist' = [hist EXCEPT !.delivered = delivered]
                        /\ UNCHANGED <<source, pos, newFormat, faults, format, nat>>
                   ELSE LET r == NativeReadAt(trk, pos, newFormat, outLen, fault)
                            bytes == NativeBytesAt(trk, pos, r.done)
                            returns == Handled(r.st) /\ HasProgress(r.done)
                            ends == Handled(r.st) /\ ~HasProgress(r.done)
                                    /\ Exhausted(e)
                        IN
                        /\ pos' = pos + r.done
                        /\ newFormat' = IF r.st = "NEW_FORMAT" THEN FALSE
                                        ELSE newFormat
                        /\ faults' = IF fault THEN faults + 1 ELSE faults
                        /\ nat' = Native(r.st, r.st, outLen, outLen, bytes)
                        /\ IF ends THEN NukeBody ELSE source' = source
                        /\ it' = Iter(n, e, fed, TRUE, ends,
                                   ~returns /\ ~ends /\ ~it.odd)
                        /\ hist' = [hist EXCEPT
                                      !.delivered = delivered,
                                      !.out = IF returns THEN @ \o bytes ELSE @,
                                      !.terminal = @ \/ ends]
                        /\ IF returns THEN Returns(r.done, "nil")
                           ELSE IF ends THEN Returns(r.done, "io.EOF")
                           ELSE UNCHANGED <<pc, res>>
                        /\ UNCHANGED format
    /\ UNCHANGED <<handle, dr, outLen>>

(* --------------------------- specifications --------------------------- *)
\* construction, release, opening and closing
Lifecycle ==
    \/ NewDecoder
    \/ Delete
    \/ Open
    \/ OpenFile
    \/ OpenFeed
    \/ Close

\* the pull interface on a handle of its own
PullNext ==
    \/ Lifecycle
    \/ Format
    \/ Read
    \/ ReadAudioFrames
    \/ DecodeSamples
    \/ Feed
    \/ Seek
    \/ Decode

\* the streaming bridge and the handle it is bound to
BridgeNext ==
    \/ Lifecycle
    \/ DecoderReader
    \/ Paranoid
    \/ Nuke
    \/ DRRead_Call
    \/ DRRead_Iter

Next == PullNext \/ BridgeNext

Spec == Init /\ [][Next]_vars
PullSpec == Init /\ [][PullNext]_vars
BridgeSpec == Init /\ [][BridgeNext]_vars
\* a call of DecoderReader.Read in progress keeps running: the loop has no
\* blocking point of its own
FairBridgeSpec == BridgeSpec /\ WF_vars(DRRead_Iter)

(* ------------------------------ claims -------------------------------- *)
\* DecoderReader.Read has returned (a panic is not a return)
DRReturned == res.op = "DRRead" /\ pc = "idle" /\ res.err # "panic"

\* C1: DecoderReader.Read never returns (0, nil): each return is n > 0 with a
\* nil error, or the end-of-stream signal, or, in paranoid mode only, the
\* input stream's error with n = 0.
C1_NeverZeroNil ==
    DRReturned =>
        \/ res.n > 0 /\ res.err = "nil"
        \/ res.err = "io.EOF"
        \/ dr.paranoid /\ res.err = "ErrIO" /\ res.n = 0

\* a lenient session that delivered PCM and then, on a decode attempt that
\* yielded nothing with the stream at end-of-input, returned end-of-stream
C1_Witness ==
    /\ DRReturned
    /\ ~dr.paranoid
    /\ res.err = "io.EOF"
    /\ nat.st = "NEED_MORE"
    /\ hist.out # <<>>

\* C2: once the session is terminal a Read returns end-of-stream at once: it
\* does not read the input stream, feed, call the engine's read or close the
\* handle again.
C2_TerminalReadIsImmediate ==
    (res.op = "DRRead" /\ hist.termAtCall) =>
        /\ it = NoIter
        /\ pc = "idle" => (res.n = 0 /\ res.err = "io.EOF")

\* C3: every call of DecoderReader.Read comes to an end (the stream reports
\* end-of-input for ever after finitely many reads).
C3_ReadTerminates == (pc = "drread") ~> (pc = "idle")

\* C4: in paranoid mode, on a handle opened for feeding, a Read that ends at
\* the input-read step (the handle closed, no decode attempt made) ends there
\* because of a stream error other than end-of-input.
C4_ParanoidEndOfInputStillDecodes ==
    (DRReturned /\ dr.paranoid /\ ~hist.foreign /\ it.closed /\ ~it.read)
        => it.err = "ErrIO"

\* C5: when a session on a handle opened for feeding, used by nobody else,
\* reaches end-of-stream, the bytes its Reads returned are the PCM of the
\* bytes the input stream delivered.
C5_OutputIsPcmOfDelivered ==
    (DRReturned /\ res.err = "io.EOF" /\ ~hist.foreign /\ ~hist.termAtCall)
        => hist.out = Pcm(hist.delivered)

\* C6: on a handle opened for feeding, in an iteration whose input read
\* returned n > 0 bytes and that went on to the decode attempt, the bytes
\* were fed first.
C6_ReadBytesAreFed ==
    (res.op = "DRRead" /\ ~hist.foreign /\ it.n > 0 /\ it.read) => it.fed

\* C7: Decoder.Read returns the engine's byte count, with EOF for DONE, an
\* error for ERR and nil for every other status.
C7_ReadTranslatesStatus ==
    (res.op = "Read" /\ res.err # "panic") =>
        /\ res.n = nat.done
        /\ nat.st = "DONE" => res.err = "EOF"
        /\ nat.st = "ERR" => res.err = "EngineErr"
        /\ nat.st \notin {"DONE", "ERR"} => res.err = "nil"

\* C8: the native read of ReadAudioFrames asks for the bytes of a whole
\* number of frames, never for more than the buffer holds, and the count
\* returned is within the buffer.
C8_RequestFitsBuffer ==
    (res.op = "ReadAudioFrames" /\ nat.st # "none") =>
        /\ nat.want \in {FramesToBytes(f) : f \in 0..MaxFrames}
        /\ nat.want <= nat.cap
        /\ res.n <= nat.cap

\* C9: Decode returns an error only when a native call reported a hard
\* error; otherwise it returns, with a nil error, all the engine produced.
C9_DecodeErrorOnlyOnHardError ==
    (res.op = "Decode" /\ res.err # "panic") =>
        /\ res.err # "nil" => (nat.first = "ERR" \/ nat.st = "ERR")
        /\ res.err = "nil" => res.data = nat.bytes

\* C10: Read, Feed and Seek on a handle with no open source return an
\* error, and so does Feed on a handle not opened for feeding.
C10_NoSourceFails ==
    /\ (res.op \in {"Read", "Feed", "Seek"} /\ source \notin OpenStates)
           => res.err # "nil"
    /\ (res.op = "Feed" /\ source # "Feed") => res.err # "nil"

\* C11: in paranoid mode a read of the input stream that fails with an error
\* other than end-of-input ends the call of DecoderReader.Read at once (the
\* first call on a fresh stream included): the source of the handle is
\* closed and Read returns 0 and that same error, with no Feed and no native
\* read in that iteration.
C11_ParanoidErrorShutsOff ==
    (DRReturned /\ dr.paranoid /\ it.err = "ErrIO") =>
        /\ res.n = 0
        /\ res.err = it.err
        /\ source = "Closed"
        /\ it.closed
        /\ ~it.fed
        /\ ~it.read

\* the first read of a fresh stream fails and the first call shuts off
C11_Witness ==
    /\ DRReturned /\ dr.paranoid
    /\ it.err = "ErrIO" /\ res.err = "ErrIO" /\ res.n = 0
    /\ it.closed /\ source = "Closed"
    /\ ~hist.foreign /\ ~hist.termAtCall
    /\ hist.delivered = <<>> /\ hist.out = <<>>

\* C12: DecodeSamples returns the bytes decoded divided by the size of a
\* frame of the current format (bytes per sample times channels), and 0
\* with a nil error at the end of the stream.
C12_FramesOfCurrentFormat ==
    (res.op = "DecodeSamples" /\ res.err = "nil" /\ nat.st # "none") =>
        res.n = IF nat.st = "DONE" THEN 0
                ELSE nat.done \div ((GetEncodingBitsPerSample(format.encoding) \div 8)
                                    * format.channels)

\* C13: DecodeSamples returns an error when the native read failed, and Seek
\* returns an error when the native seek gave a negative offset.
C13_EngineFailureIsReported ==
    /\ (res.op = "DecodeSamples" /\ nat.st = "ERR") => res.err # "nil"
    /\ (res.op = "Seek" /\ res.n < 0) => res.err # "nil"

C15_LenientIgnoresStreamErrors ==
    (res.op = "DRRead" /\ ~dr.paranoid /\ it.err # "none") =>
        /\ res.err \in {"pending", "nil", "io.EOF", "panic"}
        /\ it.err = "ErrIO" => ~it.closed
        /\ (it.err = "ErrIO" /\ outLen > 0) => it.read
        /\ (it.fed /\ it.n > 0 /\ outLen > 0) => it.read

\* a failed read of the stream, and the call still returns decoded bytes
C15_Witness ==
    /\ DRReturned /\ ~dr.paranoid
    /\ it.err = "ErrIO" /\ it.read /\ ~it.closed
    /\ res.err = "nil" /\ res.n > 0
    /\ source = "Feed"

C17_FeedsOnlyNonEmpty ==
    (res.op = "DRRead" /\ it.fed) => (it.n > 0 /\ res.err # "panic")

\* C18: NewDecoder calls no native function on a nil handle: mpg123_param is
\* not called when mpg123_new gave no handle.
C18_NoParamOnNil ==
    res.op = "NewDecoder" => res.new.param # "nil"
====
